---- MODULE Spec2Model ----
(***************************************************************************)
(* The in-process TTL/LRU result cache (app/cache.py), the sliding-window  *)
(* rate limiter (app/rate_limit.py) and the request handling that uses     *)
(* them (app/main.py) of the OCR service.                                  *)
(* Time is the value of time.time(), counted in whole ticks.               *)
(***************************************************************************)
EXTENDS Integers, Sequences, FiniteSets, TLC

VARIABLES
    max_size,        \* TTLCache.max_size
    ttl_seconds,     \* TTLCache.ttl_seconds
    cache,           \* TTLCache.cache: the OrderedDict, oldest first
    max_requests,    \* RateLimiter.max_requests
    window_seconds,  \* RateLimiter.window_seconds
    requests,        \* RateLimiter.requests: client -> deque of timestamps
    now,             \* the clock read by time.time()
    lastOp,          \* the last step: a completed call (had: its key was stored
                     \* when it began), or a clock tick
    ret,             \* what that call returned
    lastSet,         \* history: key -> the most recent set(key, .) and its time,
                     \* NoSet once the key was evicted or cleared after it
    recency,         \* history: keys by last set or successful get, oldest first
    admitted,        \* history: client -> time -> number of admitted calls
    thr,             \* thread -> its call in progress: pc (the line it is at),
                     \* op, arg, val, the time it read, its locals, its result
    cacheLock,       \* TTLCache.lock: the thread holding it, or Free
    limiterLock,     \* RateLimiter.lock: the thread holding it, or Free
    snapCache,       \* history: the store when cacheLock was last acquired
    snapRequests,    \* history: requests when limiterLock was last acquired
    inflight,        \* HTTP request slot -> the request in flight (app/main.py):
                     \* pc, route, client, uploads left, start_time, status and
                     \* the history of the calls it has made (events)
    heap             \* the result dicts the cache refers to: object -> its
                     \* current content (cur) and, as history, its content
                     \* when cache.set stored it (orig)

cacheVars == <<max_size, ttl_seconds, cache>>
limiterVars == <<max_requests, window_seconds, requests>>
cacheHist == <<lastSet, recency>>
threadVars == <<thr, cacheLock, limiterLock, snapCache, snapRequests>>
httpVars == <<inflight, heap>>
vars == <<max_size, ttl_seconds, cache, max_requests, window_seconds, requests,
          now, lastOp, ret, lastSet, recency, admitted,
          thr, cacheLock, limiterLock, snapCache, snapRequests, inflight, heap>>

\* ------------------------------------------------------------------ bounds
MaxSize == 2
Ttl == 1
MaxRequests == 2
Window == 2
MaxTime == 4

Keys == {"a", "b", "c"}
Values == {"v1", "v2"}
Clients == {"A", "B"}
None == "None"
KeyError == "KeyError"
Times == 0..MaxTime
Threads == {"t1", "t2"}
Free == "free"
Idle == [pc |-> "idle", op |-> None, arg |-> None, val |-> None,
         tnow |-> -1, tmp |-> None, ret |-> None]
\* two connections served concurrently: one sends requests to any route, the
\* other is an operator's and sends health checks, cache stats and cache clears
Reqs == {"any", "ops"}
NoRequest == [pc |-> "idle", route |-> None, client |-> None, images |-> <<>>,
              extra |-> 0, start |-> -1, status |-> 0, events |-> <<>>]
ObjIds == {"o1", "o2", "o3"}
NoObj == [text |-> None, cached |-> FALSE, processing_time_ms |-> -1]

\* ------------------------------------------------------- OrderedDict helpers
KeysOf(c) == {c[i].key : i \in 1..Len(c)}

KeySeq(c) == [i \in 1..Len(c) |-> c[i].key]

Contains(c, k) == k \in KeysOf(c)

Lookup(c, k) == c[CHOOSE i \in 1..Len(c) : c[i].key = k]

DelKey(c, k) == SelectSeq(c, LAMBDA e : e.key # k)

\* d[k] = e: an existing key keeps its position, a new key goes to the end
SetItem(c, k, e) ==
    IF Contains(c, k)
    THEN [i \in 1..Len(c) |-> IF c[i].key = k THEN e ELSE c[i]]
    ELSE Append(c, e)

\* faulty variant: a hit does not promote the key
MoveToEndNoop(c, k) == c

MoveToEnd(c, k) == Append(DelKey(c, k), Lookup(c, k))

\* ------------------------------------------------------------------ TTLCache
TTLCacheInit(ms, ttl) == [max_size |-> ms, ttl_seconds |-> ttl, cache |-> <<>>]

\* faulty variant: entries live one tick too long
IsExpiredLate(timestamp, t, ttl) == t - timestamp > ttl + 1

IsExpired(timestamp, t, ttl) == t - timestamp > ttl

\* faulty variant: a hit restarts the entry's TTL clock
CacheGetRefresh(c, k, t, ttl) ==
    IF ~Contains(c, k)
    THEN [cache |-> c, ret |-> None]
    ELSE IF IsExpired(Lookup(c, k).timestamp, t, ttl)
         THEN [cache |-> DelKey(c, k), ret |-> None]
         ELSE [cache |-> Append(DelKey(c, k), [Lookup(c, k) EXCEPT !.timestamp = t]),
               ret |-> Lookup(c, k).value]

\* faulty variant: every get first sweeps all expired entries
CacheGetSweep(c, k, t, ttl) ==
    LET live == SelectSeq(c, LAMBDA e : ~IsExpired(e.timestamp, t, ttl)) IN
    IF ~Contains(live, k)
    THEN [cache |-> live, ret |-> None]
    ELSE [cache |-> MoveToEnd(live, k), ret |-> Lookup(live, k).value]

\* faulty variant: removing an expired key also drops the oldest entry left
CacheGetDropOldest(c, k, t, ttl) ==
    IF ~Contains(c, k)
    THEN [cache |-> c, ret |-> None]
    ELSE IF IsExpired(Lookup(c, k).timestamp, t, ttl)
         THEN [cache |-> IF DelKey(c, k) = <<>> THEN <<>> ELSE Tail(DelKey(c, k)),
               ret |-> None]
         ELSE [cache |-> MoveToEnd(c, k), ret |-> Lookup(c, k).value]

CacheGet(c, k, t, ttl) ==
    IF ~Contains(c, k)
    THEN [cache |-> c, ret |-> None]
    ELSE IF IsExpired(Lookup(c, k).timestamp, t, ttl)
         THEN [cache |-> DelKey(c, k), ret |-> None]
         ELSE [cache |-> MoveToEnd(c, k), ret |-> Lookup(c, k).value]

RECURSIVE EvictOverLate(_, _)
\* faulty variant: the capacity check is off by one
EvictOverLate(c, ms) ==
    IF Len(c) > ms + 1
    THEN EvictOverLate(Tail(c), ms)
    ELSE [cache |-> c, ret |-> None]

RECURSIVE EvictOver(_, _)
EvictOver(c, ms) ==
    IF Len(c) > ms
    THEN IF c = <<>>
         THEN [cache |-> c, ret |-> KeyError]   \* popitem() on an empty dict
         ELSE EvictOver(Tail(c), ms)
    ELSE [cache |-> c, ret |-> None]

\* faulty variant: the old entry is not deleted first, so the key keeps its position
SetInsertInPlace(c, k, v, t) ==
    SetItem(c, k, [key |-> k, value |-> v, timestamp |-> t])

SetInsert(c, k, v, t) ==
    SetItem(IF Contains(c, k) THEN DelKey(c, k) ELSE c, k,
            [key |-> k, value |-> v, timestamp |-> t])

CacheSet(c, k, v, t, ms) == EvictOver(SetInsert(c, k, v, t), ms)

\* faulty variant: clear leaves the store as it is
CacheClearNoop(c) == c

CacheClear(c) == <<>>

CacheSize(c) == Len(c)

\* ------------------------------------------------------------ history helpers
NoSet == [value |-> None, t |-> -1]

Touch(r, k) == Append(SelectSeq(r, LAMBDA x : x # k), k)

\* ------------------------------------------------------------ cache actions
Get(k) ==
    LET r == CacheGet(cache, k, now, ttl_seconds) IN
    /\ cache' = r.cache
    /\ ret' = r.ret
    /\ lastOp' = [op |-> "get", arg |-> k, had |-> Contains(cache, k)]
    /\ recency' = IF r.ret # None THEN Touch(recency, k) ELSE recency
    /\ UNCHANGED <<max_size, ttl_seconds, limiterVars, now, lastSet, admitted, threadVars, httpVars>>

Set(k, v) ==
    LET r == CacheSet(cache, k, v, now, max_size) IN
    /\ cache' = r.cache
    /\ ret' = r.ret
    /\ lastOp' = [op |-> "set", arg |-> k, had |-> Contains(cache, k)]
    /\ lastSet' = [x \in Keys |->
                     IF x \in (KeysOf(cache) \cup {k}) \ KeysOf(r.cache) THEN NoSet
                     ELSE IF x = k THEN [value |-> v, t |-> now]
                     ELSE lastSet[x]]
    /\ recency' = Touch(recency, k)
    /\ UNCHANGED <<max_size, ttl_seconds, limiterVars, now, admitted, threadVars, httpVars>>

Clear ==
    /\ cache' = CacheClear(cache)
    /\ ret' = None
    /\ lastOp' = [op |-> "clear", arg |-> None, had |-> FALSE]
    /\ lastSet' = [x \in Keys |-> IF x \in KeysOf(cache) THEN NoSet ELSE lastSet[x]]
    /\ UNCHANGED <<max_size, ttl_seconds, limiterVars, now, recency, admitted, threadVars, httpVars>>

Size ==
    /\ ret' = CacheSize(cache)
    /\ lastOp' = [op |-> "size", arg |-> None, had |-> FALSE]
    /\ UNCHANGED <<cacheVars, limiterVars, now, cacheHist, admitted, threadVars, httpVars>>

\* --------------------------------------------------------------- RateLimiter
RateLimiterInit(mr, ws) ==
    [max_requests |-> mr, window_seconds |-> ws, requests |-> << >>]

\* self.requests[client_ip] on a defaultdict(deque): a missing client is created
ClientRequests(reqs, c) == IF c \in DOMAIN reqs THEN reqs[c] ELSE <<>>

\* faulty variant: one deque shared by all clients
PutClientAll(reqs, c, q) == [x \in (DOMAIN reqs) \cup {c} |-> q]

PutClient(reqs, c, q) ==
    [x \in (DOMAIN reqs) \cup {c} |-> IF x = c THEN q ELSE reqs[x]]

\* faulty variant: a timestamp exactly window_seconds old is kept
IsStaleStrict(ts, t, ws) == ts < t - ws

IsStale(ts, t, ws) == ts <= t - ws

RECURSIVE Prune(_, _, _)
Prune(q, t, ws) ==
    IF q # <<>> /\ IsStale(Head(q), t, ws)
    THEN Prune(Tail(q), t, ws)
    ELSE q

\* faulty variant: the limit check admits one request too many
UnderLimitInclusive(q, mr) == Len(q) <= mr

UnderLimit(q, mr) == Len(q) < mr

\* faulty variant: remaining is computed before the append
IsAllowedStaleRemaining(reqs, c, t, mr, ws) ==
    LET q == Prune(ClientRequests(reqs, c), t, ws) IN
    IF UnderLimit(q, mr)
    THEN [requests |-> PutClient(reqs, c, Append(q, t)), ret |-> <<TRUE, mr - Len(q)>>]
    ELSE [requests |-> PutClient(reqs, c, q), ret |-> <<FALSE, 0>>]

\* faulty variant: the timestamp is appended before the limit check
IsAllowedAlwaysAppend(reqs, c, t, mr, ws) ==
    LET q == Prune(ClientRequests(reqs, c), t, ws) IN
    IF UnderLimit(q, mr)
    THEN [requests |-> PutClient(reqs, c, Append(q, t)),
          ret |-> <<TRUE, mr - (Len(q) + 1)>>]
    ELSE [requests |-> PutClient(reqs, c, Append(q, t)), ret |-> <<FALSE, 0>>]

IsAllowed(reqs, c, t, mr, ws) ==
    LET q == Prune(ClientRequests(reqs, c), t, ws) IN
    IF UnderLimit(q, mr)
    THEN [requests |-> PutClient(reqs, c, Append(q, t)),
          ret |-> <<TRUE, mr - (Len(q) + 1)>>]
    ELSE [requests |-> PutClient(reqs, c, q), ret |-> <<FALSE, 0>>]

Max(a, b) == IF a >= b THEN a ELSE b

\* faulty variant: the count is taken without pruning
GetRemainingNoPrune(reqs, c, t, mr, ws) ==
    LET q == ClientRequests(reqs, c) IN
    [requests |-> PutClient(reqs, c, q), ret |-> Max(0, mr - Len(q))]

GetRemaining(reqs, c, t, mr, ws) ==
    LET q == Prune(ClientRequests(reqs, c), t, ws) IN
    [requests |-> PutClient(reqs, c, q), ret |-> Max(0, mr - Len(q))]

\* ---------------------------------------------------------- limiter actions
Admit(c) ==
    LET r == IsAllowed(requests, c, now, max_requests, window_seconds) IN
    /\ admitted[c][now] <= MaxRequests     \* caps the history counter
    /\ requests' = r.requests
    /\ ret' = r.ret
    /\ lastOp' = [op |-> "is_allowed", arg |-> c, had |-> FALSE]
    /\ admitted' = IF r.ret[1]
                   THEN [admitted EXCEPT ![c][now] = @ + 1]
                   ELSE admitted
    /\ UNCHANGED <<cacheVars, max_requests, window_seconds, now, cacheHist, threadVars, httpVars>>

Remaining(c) ==
    LET r == GetRemaining(requests, c, now, max_requests, window_seconds) IN
    /\ requests' = r.requests
    /\ ret' = r.ret
    /\ lastOp' = [op |-> "get_remaining", arg |-> c, had |-> FALSE]
    /\ UNCHANGED <<cacheVars, max_requests, window_seconds, now, cacheHist, admitted, threadVars, httpVars>>

\* time.time() is non-decreasing between calls
TickTo(bound) ==
    /\ now < bound
    /\ now' = now + 1
    /\ lastOp' = [op |-> "tick", arg |-> None, had |-> FALSE]
    /\ ret' = None
    /\ UNCHANGED <<cacheVars, limiterVars, cacheHist, admitted, threadVars, httpVars>>

Tick == TickTo(MaxTime)

InitCommon ==
    /\ now = 0
    /\ lastOp = [op |-> "init", arg |-> None, had |-> FALSE]
    /\ ret = None
    /\ lastSet = [k \in Keys |-> NoSet]
    /\ recency = <<>>
    /\ admitted = [c \in Clients |-> [t \in Times |-> 0]]
    /\ thr = [t \in Threads |-> Idle]
    /\ cacheLock = Free
    /\ limiterLock = Free
    /\ snapCache = <<>>
    /\ snapRequests = << >>
    /\ inflight = [r \in Reqs |-> NoRequest]
    /\ heap = [o \in ObjIds |-> NoObj]

InitCache ==
    /\ InitCommon
    /\ \E ms \in 1..MaxSize, ttl \in {Ttl} :
         LET o == TTLCacheInit(ms, ttl) IN
         /\ max_size = o.max_size
         /\ ttl_seconds = o.ttl_seconds
         /\ cache = o.cache
    /\ max_requests = 1
    /\ window_seconds = 1
    /\ requests = << >>

NextCache ==
    \/ \E k \in Keys : Get(k)
    \/ \E k \in Keys, v \in Values : Set(k, v)
    \/ Clear
    \/ Size
    \/ Tick

SpecCache == InitCache /\ [][NextCache]_vars

InitLimiter ==
    /\ InitCommon
    /\ \E mr \in 1..MaxRequests, ws \in {Window} :
         LET o == RateLimiterInit(mr, ws) IN
         /\ max_requests = o.max_requests
         /\ window_seconds = o.window_seconds
         /\ requests = o.requests
    /\ max_size = 1
    /\ ttl_seconds = 1
    /\ cache = <<>>

NextLimiter ==
    \/ \E c \in Clients : Admit(c)
    \/ \E c \in Clients : Remaining(c)
    \/ Tick

SpecLimiter == InitLimiter /\ [][NextLimiter]_vars

\* ------------------------------------------------------------------ threads
\* Each call of a thread, one step per statement of its method. The body of
\* `with self.lock:` is entered when the lock is free and left through the
\* exit step, which releases it.
ThreadKeys == {"a", "b"}
ThreadValues == {"v1"}
ThreadClients == {"A"}
ThreadMaxSize == 1
ThreadMaxRequests == 1
ThreadMaxTime == 2

\* faulty variant: a lock that excludes nobody
LockAlwaysFree(lock) == TRUE

LockFree(lock) == lock = Free

At(t, line) == thr[t].pc = line

Goto(t, line) == [thr[t] EXCEPT !.pc = line]

Return(t, r) == [thr[t] EXCEPT !.pc = "exit", !.ret = r]

Step(t, r) == thr' = [thr EXCEPT ![t] = r]

cacheFrame == <<max_size, ttl_seconds, now, lastOp, ret, lastSet, recency,
                limiterVars, admitted, limiterLock, snapRequests, httpVars>>
limiterFrame == <<max_requests, window_seconds, now, lastOp, ret, lastSet, recency,
                  cacheVars, cacheLock, snapCache, httpVars>>

CallCache(t) ==
    /\ At(t, "idle")
    /\ LockFree(cacheLock)
    /\ cacheLock' = t
    /\ snapCache' = cache
    /\ \E c \in [op : {"get"}, arg : ThreadKeys, val : {None}]
              \cup [op : {"set"}, arg : ThreadKeys, val : ThreadValues]
              \cup [op : {"clear", "size"}, arg : {None}, val : {None}] :
          Step(t, [Idle EXCEPT !.pc = c.op, !.op = c.op, !.arg = c.arg, !.val = c.val])
    /\ UNCHANGED <<cache, cacheFrame>>

\* get, line 17: if key not in self.cache: return None
Get17(t) ==
    /\ At(t, "get")
    /\ Step(t, IF Contains(cache, thr[t].arg) THEN Goto(t, "get20") ELSE Return(t, None))
    /\ UNCHANGED <<cache, cacheLock, snapCache, cacheFrame>>

\* line 20: value, timestamp = self.cache[key]
Get20(t) ==
    /\ At(t, "get20")
    /\ Step(t, IF Contains(cache, thr[t].arg)
               THEN [thr[t] EXCEPT !.pc = "get23", !.tmp = Lookup(cache, thr[t].arg)]
               ELSE Return(t, KeyError))
    /\ UNCHANGED <<cache, cacheLock, snapCache, cacheFrame>>

\* line 23: if time.time() - timestamp > self.ttl_seconds
Get23(t) ==
    /\ At(t, "get23")
    /\ Step(t, [thr[t] EXCEPT !.tnow = now,
                   !.pc = IF IsExpired(thr[t].tmp.timestamp, now, ttl_seconds)
                          THEN "get24" ELSE "get28"])
    /\ UNCHANGED <<cache, cacheLock, snapCache, cacheFrame>>

\* lines 24-25: del self.cache[key]; return None
Get24(t) ==
    /\ At(t, "get24")
    /\ IF Contains(cache, thr[t].arg)
       THEN cache' = DelKey(cache, thr[t].arg) /\ Step(t, Return(t, None))
       ELSE cache' = cache /\ Step(t, Return(t, KeyError))
    /\ UNCHANGED <<cacheLock, snapCache, cacheFrame>>

\* lines 28-29: self.cache.move_to_end(key); return value
Get28(t) ==
    /\ At(t, "get28")
    /\ IF Contains(cache, thr[t].arg)
       THEN cache' = MoveToEnd(cache, thr[t].arg)
            /\ Step(t, Return(t, thr[t].tmp.value))
       ELSE cache' = cache /\ Step(t, Return(t, KeyError))
    /\ UNCHANGED <<cacheLock, snapCache, cacheFrame>>

\* set, lines 35-36: if key in self.cache: del self.cache[key]
Set35(t) ==
    /\ At(t, "set")
    /\ cache' = IF Contains(cache, thr[t].arg) THEN DelKey(cache, thr[t].arg) ELSE cache
    /\ Step(t, Goto(t, "set39"))
    /\ UNCHANGED <<cacheLock, snapCache, cacheFrame>>

\* line 39: self.cache[key] = (value, time.time())
Set39(t) ==
    /\ At(t, "set39")
    /\ cache' = SetItem(cache, thr[t].arg,
                        [key |-> thr[t].arg, value |-> thr[t].val, timestamp |-> now])
    /\ Step(t, [thr[t] EXCEPT !.pc = "set42", !.tnow = now])
    /\ UNCHANGED <<cacheLock, snapCache, cacheFrame>>

\* faulty variant: the loop pops the newest entry, popitem(last=True)
Set42Newest(t) ==
    /\ At(t, "set42")
    /\ IF Len(cache) > max_size
       THEN IF cache = <<>>
            THEN cache' = cache /\ Step(t, Return(t, KeyError))
            ELSE cache' = SubSeq(cache, 1, Len(cache) - 1) /\ Step(t, Goto(t, "set42"))
       ELSE cache' = cache /\ Step(t, Return(t, None))
    /\ UNCHANGED <<cacheLock, snapCache, cacheFrame>>

\* lines 42-43: while len(self.cache) > self.max_size: popitem(last=False)
Set42(t) ==
    /\ At(t, "set42")
    /\ IF Len(cache) > max_size
       THEN IF cache = <<>>
            THEN cache' = cache /\ Step(t, Return(t, KeyError))
            ELSE cache' = Tail(cache) /\ Step(t, Goto(t, "set42"))
       ELSE cache' = cache /\ Step(t, Return(t, None))
    /\ UNCHANGED <<cacheLock, snapCache, cacheFrame>>

\* clear, line 48
Clear48(t) ==
    /\ At(t, "clear")
    /\ cache' = CacheClear(cache)
    /\ Step(t, Return(t, None))
    /\ UNCHANGED <<cacheLock, snapCache, cacheFrame>>

\* size, line 53
Size53(t) ==
    /\ At(t, "size")
    /\ Step(t, Return(t, CacheSize(cache)))
    /\ UNCHANGED <<cache, cacheLock, snapCache, cacheFrame>>

IsCacheOp(op) == op \in {"get", "set", "clear", "size"}

\* the end of `with self.lock:` in a TTLCache method
ExitCache(t) ==
    /\ At(t, "exit")
    /\ IsCacheOp(thr[t].op)
    /\ cacheLock' = Free
    /\ snapCache' = <<>>
    /\ Step(t, Idle)
    /\ UNCHANGED <<cache, cacheFrame>>

CallLimiter(t) ==
    /\ At(t, "idle")
    /\ LockFree(limiterLock)
    /\ limiterLock' = t
    /\ snapRequests' = requests
    /\ \E op \in {"is_allowed", "get_remaining"}, c \in ThreadClients :
          Step(t, [Idle EXCEPT !.pc = op, !.op = op, !.arg = c])
    /\ UNCHANGED <<requests, admitted, limiterFrame>>

\* lines 17-18 and 36-37: now = time.time(); client_requests = self.requests[ip]
Limiter17(t) ==
    /\ thr[t].pc \in {"is_allowed", "get_remaining"}
    /\ requests' = PutClient(requests, thr[t].arg, ClientRequests(requests, thr[t].arg))
    /\ Step(t, [thr[t] EXCEPT !.tnow = now, !.pc = "prune"])
    /\ UNCHANGED <<admitted, limiterLock, snapRequests, limiterFrame>>

\* lines 21-22 and 40-41: while client_requests and client_requests[0] <= ...
Limiter21(t) ==
    /\ At(t, "prune")
    /\ LET q == requests[thr[t].arg] IN
       IF q # <<>> /\ IsStale(Head(q), thr[t].tnow, window_seconds)
       THEN requests' = [requests EXCEPT ![thr[t].arg] = Tail(q)]
            /\ Step(t, Goto(t, "prune"))
       ELSE requests' = requests
            /\ Step(t, Goto(t, IF thr[t].op = "is_allowed" THEN "adm25" ELSE "rem43"))
    /\ UNCHANGED <<admitted, limiterLock, snapRequests, limiterFrame>>

\* is_allowed, line 25: if len(client_requests) < self.max_requests
Adm25(t) ==
    /\ At(t, "adm25")
    /\ Step(t, IF UnderLimit(requests[thr[t].arg], max_requests)
               THEN Goto(t, "adm26")
               ELSE Return(t, <<FALSE, 0>>))
    /\ UNCHANGED <<requests, admitted, limiterLock, snapRequests, limiterFrame>>

\* lines 26-28: append(now); remaining = max_requests - len; return True, remaining
Adm26(t) ==
    /\ At(t, "adm26")
    /\ LET q == Append(requests[thr[t].arg], thr[t].tnow) IN
       /\ requests' = [requests EXCEPT ![thr[t].arg] = q]
       /\ Step(t, Return(t, <<TRUE, max_requests - Len(q)>>))
    /\ admitted' = [admitted EXCEPT ![thr[t].arg][thr[t].tnow] = @ + 1]
    /\ UNCHANGED <<limiterLock, snapRequests, limiterFrame>>

\* get_remaining, line 43
Rem43(t) ==
    /\ At(t, "rem43")
    /\ Step(t, Return(t, Max(0, max_requests - Len(requests[thr[t].arg]))))
    /\ UNCHANGED <<requests, admitted, limiterLock, snapRequests, limiterFrame>>

\* the end of `with self.lock:` in a RateLimiter method
ExitLimiter(t) ==
    /\ At(t, "exit")
    /\ ~IsCacheOp(thr[t].op)
    /\ limiterLock' = Free
    /\ snapRequests' = << >>
    /\ Step(t, Idle)
    /\ UNCHANGED <<requests, admitted, limiterFrame>>

ThreadTick == TickTo(ThreadMaxTime)

InitThreads ==
    /\ InitCommon
    /\ \E ms \in {ThreadMaxSize} :
         LET o == TTLCacheInit(ms, Ttl) IN
         /\ max_size = o.max_size
         /\ ttl_seconds = o.ttl_seconds
         /\ cache = o.cache
    /\ \E mr \in {ThreadMaxRequests} :
         LET o == RateLimiterInit(mr, Window) IN
         /\ max_requests = o.max_requests
         /\ window_seconds = o.window_seconds
         /\ requests = o.requests

NextThreads ==
    \/ \E t \in Threads :
          \/ CallCache(t)
          \/ Get17(t) \/ Get20(t) \/ Get23(t) \/ Get24(t) \/ Get28(t)
          \/ Set35(t) \/ Set39(t) \/ Set42(t)
          \/ Clear48(t)
          \/ Size53(t)
          \/ ExitCache(t)
          \/ CallLimiter(t)
          \/ Limiter17(t) \/ Limiter21(t)
          \/ Adm25(t) \/ Adm26(t)
          \/ Rem43(t)
          \/ ExitLimiter(t)
    \/ ThreadTick

SpecThreads == InitThreads /\ [][NextThreads]_vars

\* ---------------------------------------------- threads calling the limiter only
\* Same line-level steps as above, restricted to RateLimiter calls, with a
\* quota large enough for a client's deque to hold several timestamps.
InitLimiterThreads ==
    /\ InitCommon
    /\ LET o == TTLCacheInit(ThreadMaxSize, Ttl) IN
         /\ max_size = o.max_size
         /\ ttl_seconds = o.ttl_seconds
         /\ cache = o.cache
    /\ \E mr \in {MaxRequests} :
         LET o == RateLimiterInit(mr, Window) IN
         /\ max_requests = o.max_requests
         /\ window_seconds = o.window_seconds
         /\ requests = o.requests

NextLimiterThreads ==
    \/ \E t \in Threads :
          \/ CallLimiter(t)
          \/ Limiter17(t) \/ Limiter21(t)
          \/ Adm25(t) \/ Adm26(t)
          \/ Rem43(t)
          \/ ExitLimiter(t)
    \/ Tick

SpecLimiterThreads == InitLimiterThreads /\ [][NextLimiterThreads]_vars

\* ---------------------------------------------- construction with any arguments
\* TTLCache(max_size, ttl_seconds) and RateLimiter(max_requests,
\* window_seconds) take any integers: neither __init__ checks its arguments.
CtorArgs == {-1, 0, 1}

InitAnyConfig ==
    /\ InitCommon
    /\ \E ms \in CtorArgs, ttl \in CtorArgs :
         LET o == TTLCacheInit(ms, ttl) IN
         /\ max_size = o.max_size
         /\ ttl_seconds = o.ttl_seconds
         /\ cache = o.cache
    /\ \E mr \in CtorArgs, ws \in CtorArgs :
         LET o == RateLimiterInit(mr, ws) IN
         /\ max_requests = o.max_requests
         /\ window_seconds = o.window_seconds
         /\ requests = o.requests

NextAnyConfig ==
    \/ \E k \in ThreadKeys : Get(k)
    \/ \E k \in ThreadKeys, v \in ThreadValues : Set(k, v)
    \/ \E c \in ThreadClients : Admit(c)
    \/ ThreadTick

SpecAnyConfig == InitAnyConfig /\ [][NextAnyConfig]_vars

\* ------------------------------------------------------- the HTTP layer (app/main.py)
\* Requests are coroutines on one event loop: each action below is the code
\* between two awaits, so calls on the cache and the limiter never interleave
\* inside an action, while different requests interleave between actions.
Routes == {"/health", "/extract-text", "/extract-text/batch",
           "/cache/stats", "/cache/clear"}

\* uploads: two images, a file of a type that is not allowed, a file with an
\* image's name and type whose content is not an image, and an image on which
\* the OCR call raises
Uploads == {"img1", "img2", "doc", "fake", "bomb"}

\* main.py line 200: the largest batch that is processed
BatchLimit == 10

\* utils.validate_image_format
ValidFormat(u) == u # "doc"

\* faulty variant: the content check lets every upload through
ValidMagicAny(u) == TRUE

\* utils.validate_image_magic_bytes
ValidMagic(u) == u # "fake"

\* line 141 raises instead of returning: control goes to `except Exception`
\* at line 172
OcrRaises(u) == u = "bomb"

\* utils.calculate_file_hash: the digest of the content, a cache key
FileHash(u) ==
    CASE u = "img1" -> "a"
      [] u = "img2" -> "b"
      [] OTHER -> "c"

\* ocr_service.extract_text: the text read from the image
OcrText(u) ==
    CASE u = "img1" -> "text1"
      [] u = "img2" -> "text2"
      [] OTHER -> "text"

Ev(e, arg, ok) == [e |-> e, arg |-> arg, ok |-> ok]

\* the batches within the limit that are sent
Batches == {<<>>, <<"img1", "img2">>, <<"doc", "img1">>, <<"img1", "fake", "img1">>}

\* the bodies a request can carry on each route; a batch over the limit is
\* rejected before any upload is looked at, so only its length is kept
Bodies(route) ==
    CASE route = "/extract-text" ->
            {[images |-> <<u>>, extra |-> 0] : u \in Uploads}
      [] route = "/extract-text/batch" ->
            {[images |-> s, extra |-> 0] : s \in Batches}
            \cup {[images |-> <<>>, extra |-> BatchLimit + 1]}
      [] OTHER -> {[images |-> <<>>, extra |-> 0]}

\* the objects the store refers to
Refs(c) == {c[i].value : i \in 1..Len(c)}

\* objects nothing refers to any more are freed
Collect(h, c) == [o \in ObjIds |-> IF o \in Refs(c) THEN h[o] ELSE NoObj]

\* the address of a newly built result dict: any address not in use will do,
\* and the dict stored under a key is the only one that key ever refers to
NewObj(file_hash) ==
    CASE file_hash = "a" -> "o1"
      [] file_hash = "b" -> "o2"
      [] OTHER -> "o3"

\* faulty variant: the health route is rate limited like the others
SkipsLimiterNever(route) == FALSE

\* lines 57-59: if request.url.path == "/health": return await call_next(request)
SkipsLimiter(route) == route = "/health"

\* faulty variant: a rejected request is passed on to its handler
RejectedNever(allowed) == FALSE

\* line 62: if not allowed
Rejected(allowed) == ~allowed

\* the routes each connection sends requests to
RoutesOf(r) ==
    IF r = "ops" THEN {"/health", "/cache/stats", "/cache/clear"} ELSE Routes

\* the handler the router calls for a path
Entry(route) ==
    CASE route = "/health" -> "health"
      [] route = "/extract-text" -> "extract"
      [] route = "/extract-text/batch" -> "batch"
      [] route = "/cache/stats" -> "stats"
      [] route = "/cache/clear" -> "clear"

\* lines 151-158: the result dict of a miss
OcrResult(u, elapsed) ==
    [text |-> OcrText(u), cached |-> FALSE, processing_time_ms |-> elapsed]

\* lines 136-137: the assignments to the dict that cache.get handed back
HitResult(d, elapsed) ==
    [d EXCEPT !.cached = TRUE, !.processing_time_ms = elapsed]

Log(q, e) == [q EXCEPT !.events = Append(@, e)]

\* the response is sent; the uploads and start_time go out of scope
Done(q, status) ==
    [q EXCEPT !.pc = "done", !.status = status, !.images = <<>>, !.start = -1]

\* what follows the processing of one upload: the single-image route
\* responds; the batch loop (line 205) goes on to the next upload
AfterImage(q, status) ==
    IF q.route = "/extract-text"
    THEN Done(q, status)
    ELSE IF Tail(q.images) = <<>>
         THEN Done(q, 200)
         ELSE [q EXCEPT !.images = Tail(@), !.pc = "extract"]

httpFrame == <<max_size, ttl_seconds, max_requests, window_seconds, now,
               lastOp, ret, lastSet, recency, admitted, threadVars>>

\* a request arrives
Receive(r) ==
    /\ inflight[r].pc \in {"idle", "done"}
    /\ \E route \in RoutesOf(r), c \in ThreadClients :
         \E b \in Bodies(route) :
            inflight' = [inflight EXCEPT ![r] =
                        [NoRequest EXCEPT !.pc = "mw", !.route = route, !.client = c,
                                          !.images = b.images, !.extra = b.extra]]
    /\ UNCHANGED <<cache, requests, heap, httpFrame>>

\* rate_limit_middleware, lines 55-71, up to await call_next
Middleware(r) ==
    /\ inflight[r].pc = "mw"
    /\ LET q == inflight[r] IN
       IF SkipsLimiter(q.route)
       THEN /\ requests' = requests
            /\ inflight' = [inflight EXCEPT ![r] = [q EXCEPT !.pc = Entry(q.route)]]
       ELSE LET a == IsAllowed(requests, q.client, now, max_requests, window_seconds) IN
            /\ requests' = a.requests
            /\ inflight' = [inflight EXCEPT ![r] =
                          IF Rejected(a.ret[1])
                          THEN Done(Log(q, Ev("is_allowed", q.client, a.ret[1])), 429)
                          ELSE [Log(q, Ev("is_allowed", q.client, a.ret[1]))
                                  EXCEPT !.pc = Entry(q.route)]]
    /\ UNCHANGED <<cache, heap, httpFrame>>

\* health_check, lines 79-82
Health(r) ==
    /\ inflight[r].pc = "health"
    /\ inflight' = [inflight EXCEPT ![r] = Done(@, 200)]
    /\ UNCHANGED <<cache, requests, heap, httpFrame>>

\* cache_stats, lines 245-252
CacheStats(r) ==
    /\ inflight[r].pc = "stats"
    /\ inflight' = [inflight EXCEPT ![r] = Done(Log(@, Ev("cache.size", None, TRUE)), 200)]
    /\ UNCHANGED <<cache, requests, heap, httpFrame>>

\* clear_cache, lines 255-259
ClearCache(r) ==
    /\ inflight[r].pc = "clear"
    /\ cache' = CacheClear(cache)
    /\ heap' = Collect(heap, cache')
    /\ inflight' = [inflight EXCEPT ![r] = Done(Log(@, Ev("cache.clear", None, TRUE)), 200)]
    /\ UNCHANGED <<requests, httpFrame>>

\* extract_text_batch, lines 197-205: the size check and the loop's entry
BatchBegin(r) ==
    /\ inflight[r].pc = "batch"
    /\ LET q == inflight[r] IN
       inflight' = [inflight EXCEPT ![r] =
                   IF Len(q.images) + q.extra > BatchLimit
                   THEN Done(q, 400)
                   ELSE IF q.images = <<>>
                        THEN Done(q, 200)
                        ELSE [q EXCEPT !.pc = "extract"]]
    /\ UNCHANGED <<cache, requests, heap, httpFrame>>

\* extract_text, lines 96-117: start_time and the checks before the read
ExtractBegin(r) ==
    /\ inflight[r].pc = "extract"
    /\ LET q == inflight[r]
           u == Head(q.images)
           v == Log([q EXCEPT !.start = now], Ev("validate", u, ValidFormat(u)))
       IN
       inflight' = [inflight EXCEPT ![r] =
                   IF ValidFormat(u)
                   THEN [v EXCEPT !.pc = "read"]
                   ELSE AfterImage(Log(v, Ev("reject", u, FALSE)), 400)]
    /\ UNCHANGED <<cache, requests, heap, httpFrame>>

\* extract_text, lines 120-168: after await image.read()
ExtractAfterRead(r) ==
    /\ inflight[r].pc = "read"
    /\ LET q == inflight[r]
           u == Head(q.images)
           file_hash == FileHash(u)
           g == CacheGet(cache, file_hash, now, ttl_seconds)
           elapsed == now - q.start
       IN
       IF ~ValidMagic(u)
       THEN /\ inflight' = [inflight EXCEPT ![r] = AfterImage(Log(q, Ev("reject", u, FALSE)), 400)]
            /\ UNCHANGED <<cache, heap>>
       ELSE IF g.ret # None
       THEN \* lines 134-138: a hit
            /\ cache' = g.cache
            /\ heap' = [heap EXCEPT ![g.ret].cur = HitResult(@, elapsed)]
            /\ inflight' = [inflight EXCEPT ![r] =
                          AfterImage(Log(Log(q, Ev("cache.get", file_hash, TRUE)),
                                         Ev("hit", file_hash, TRUE)), 200)]
       ELSE IF OcrRaises(u)
       THEN \* lines 141, 172-183: a miss whose OCR call raises; 500, no cache.set
            /\ cache' = g.cache
            /\ heap' = Collect(heap, g.cache)
            /\ inflight' = [inflight EXCEPT ![r] =
                          AfterImage(Log(Log(q, Ev("cache.get", file_hash, FALSE)),
                                         Ev("ocr", u, FALSE)), 500)]
       ELSE \* lines 141-168: a miss
            LET o == NewObj(file_hash)
                result == OcrResult(u, elapsed)
                s == CacheSet(g.cache, file_hash, o, now, max_size)
            IN
            /\ cache' = s.cache
            /\ heap' = Collect([heap EXCEPT ![o] = [cur |-> result, orig |-> result]],
                               s.cache)
            /\ inflight' = [inflight EXCEPT ![r] =
                          AfterImage(Log(Log(Log(q, Ev("cache.get", file_hash, FALSE)),
                                             Ev("ocr", u, TRUE)),
                                         Ev("cache.set", file_hash, TRUE)), 200)]
    /\ UNCHANGED <<requests, httpFrame>>

InitHttp ==
    /\ InitCommon
    /\ LET o == TTLCacheInit(ThreadMaxSize, Ttl) IN
         /\ max_size = o.max_size
         /\ ttl_seconds = o.ttl_seconds
         /\ cache = o.cache
    /\ LET o == RateLimiterInit(ThreadMaxRequests, Window) IN
         /\ max_requests = o.max_requests
         /\ window_seconds = o.window_seconds
         /\ requests = o.requests

NextHttp ==
    \/ \E r \in Reqs :
          \/ Receive(r)
          \/ Middleware(r)
          \/ Health(r)
          \/ CacheStats(r)
          \/ ClearCache(r)
          \/ BatchBegin(r)
          \/ ExtractBegin(r)
          \/ ExtractAfterRead(r)
    \/ ThreadTick

SpecHttp == InitHttp /\ [][NextHttp]_vars


\* ------------------------------------------------------------ claim helpers
RECURSIVE SumAdmitted(_, _, _)
\* the number of admitted calls of client c with call time in (lo, hi]
SumAdmitted(c, lo, hi) ==
    IF hi <= lo \/ hi < 0
    THEN 0
    ELSE (IF hi \in Times THEN admitted[c][hi] ELSE 0) + SumAdmitted(c, lo, hi - 1)

LastN(q, n) == {q[i] : i \in (Len(q) - n + 1)..Len(q)}

Min(a, b) == IF a <= b THEN a ELSE b

\* ------------------------------------------------------------------ C1
\* C1: after every set, get and clear, with time advancing in between, the
\* store holds at most max_size entries, and size() returns at most max_size.
C1_SizeBound ==
    /\ Len(cache) <= max_size
    /\ lastOp.op = "size" => ret <= max_size

\* a set into a full store of max_size keys that had to evict
C1_Witness ==
    /\ lastOp.op = "set"
    /\ ~lastOp.had
    /\ Len(cache) = max_size
    /\ \E k \in Keys : k \notin KeysOf(cache) /\ k # lastOp.arg
                        /\ \E i \in 1..Len(recency) : recency[i] = k

\* ------------------------------------------------------------------ C2
\* C2: for every client and every instant t, at most max_requests admitted
\* calls of that client have their call time in (t - window_seconds, t].
C2_WindowBound ==
    \A c \in Clients : \A t \in Times :
        SumAdmitted(c, t - window_seconds, t) <= max_requests

\* a client with a full window is rejected
C2_Witness ==
    /\ lastOp.op = "is_allowed"
    /\ ret = <<FALSE, 0>>
    /\ SumAdmitted(lastOp.arg, now - window_seconds, now) = max_requests
    /\ admitted[lastOp.arg][now] < max_requests

\* ------------------------------------------------------------------ C3
\* C3: after set(k, v) at time T with k not replaced, evicted or cleared
\* since, get(k) later than T + ttl_seconds returns None and leaves k out of
\* the store, and get(k) earlier than T + ttl_seconds returns v.
C3_TtlCorrect ==
    \A k \in Keys :
        (lastOp.op = "get" /\ lastOp.arg = k /\ lastSet[k] # NoSet) =>
            /\ now > lastSet[k].t + ttl_seconds =>
                   ret = None /\ ~Contains(cache, k)
            /\ now < lastSet[k].t + ttl_seconds => ret = lastSet[k].value

\* a get that found its key stored but expired
C3_Witness ==
    /\ lastOp.op = "get"
    /\ lastOp.had
    /\ lastSet[lastOp.arg] # NoSet
    /\ now > lastSet[lastOp.arg].t + ttl_seconds
    /\ ret = None

\* ------------------------------------------------------------------ C4
C4_Order ==
    KeySeq(cache) = SelectSeq(recency, LAMBDA k : k \in KeysOf(cache))

C4_EvictStep ==
    lastOp'.op = "set" =>
        LET k == lastOp'.arg
            cand == SelectSeq(recency', LAMBDA x : x \in KeysOf(cache) \cup {k})
        IN  KeysOf(cache') = LastN(cand, Min(max_size, Len(cand)))

\* C4: the stored keys are always ordered by their last set or successful
\* get, and a set keeps exactly the max_size most recently used keys (the new
\* one included), whatever their insertion times and whether expired or not.
C4_LruEviction == []C4_Order /\ [][C4_EvictStep]_vars

\* set(a), set(b), get(a), set(c) with max_size = 2: b is evicted, and a is
\* kept although it is the oldest insertion and already expired
C4_Witness ==
    /\ lastOp = [op |-> "set", arg |-> "c", had |-> FALSE]
    /\ max_size = 2
    /\ KeySeq(cache) = <<"a", "c">>
    /\ recency = <<"b", "a", "c">>
    /\ IsExpired(cache[1].timestamp, now, ttl_seconds)

\* ------------------------------------------------------------------ C5
C5_OneEntryPerKey ==
    \A i, j \in 1..Len(cache) : cache[i].key = cache[j].key => i = j

C5_ReplaceStep ==
    (lastOp'.op = "set" /\ lastOp'.had) =>
        LET k == lastOp'.arg IN
        /\ Len(cache') <= Len(cache)
        /\ Contains(cache', k)
        /\ Lookup(cache', k).timestamp = now
        /\ cache'[Len(cache')].key = k
        /\ CacheGet(cache', k, now, ttl_seconds).ret = lastSet'[k].value

\* C5: a key has at most one entry, and a set on a stored key replaces it:
\* the size does not grow, get(k) returns the new value, the insertion time is
\* the time of this set, and k is the most recently used key.
C5_Replace == []C5_OneEntryPerKey /\ [][C5_ReplaceStep]_vars

\* a stored key, not the most recent one, was set again at a later time
C5_Witness ==
    /\ lastOp.op = "set"
    /\ lastOp.had
    /\ Len(cache) = 2
    /\ cache[2].key = lastOp.arg
    /\ cache[2].timestamp > cache[1].timestamp

\* ------------------------------------------------------------------ C6
\* the time of the first admitted call of the run of calls that is in the
\* window at time t
WindowStart(c, t) ==
    CHOOSE u \in Times :
        /\ t - window_seconds < u /\ u <= t
        /\ admitted[c][u] > 0
        /\ SumAdmitted(c, t - window_seconds, u - 1) = 0

\* C6: when the first admitted call in the window found no timestamp left in
\* its own window, the j-th admitted call since returns (True,
\* max_requests - j), and every rejected call returns (False, 0) after exactly
\* max_requests admitted ones.
C6_Countdown ==
    lastOp.op = "is_allowed" =>
        LET c == lastOp.arg IN
        /\ SumAdmitted(c, now - window_seconds, now) >= 1
        /\ LET t1 == WindowStart(c, now)
               j == SumAdmitted(c, t1 - 1, now)
           IN  SumAdmitted(c, t1 - window_seconds, t1 - 1) = 0 =>
                   IF ret[1]
                   THEN j \in 1..max_requests /\ ret = <<TRUE, max_requests - j>>
                   ELSE j = max_requests /\ ret = <<FALSE, 0>>

\* a client that used its whole quota at time 0 is admitted again
\* window_seconds + 1 later
C6_Witness ==
    /\ lastOp.op = "is_allowed"
    /\ max_requests = MaxRequests
    /\ admitted[lastOp.arg][0] = max_requests
    /\ now = window_seconds + 1
    /\ ret = <<TRUE, max_requests - 1>>

\* ------------------------------------------------------------------ C7
C7_RejectStep ==
    (lastOp'.op = "is_allowed" /\ ~ret'[1]) =>
        LET c == lastOp'.arg
            q == ClientRequests(requests, c)
            p == requests'[c]
        IN
        /\ \E n \in 0..Len(q) :
              /\ p = SubSeq(q, n + 1, Len(q))
              /\ \A i \in 1..n : q[i] <= now - window_seconds
        /\ \A t \in now..MaxTime :
              IsAllowed(requests', c, t, max_requests, window_seconds).ret
                = IsAllowed(requests, c, t, max_requests, window_seconds).ret
        /\ admitted' = admitted

\* C7: a rejected is_allowed call appends nothing: the client's sequence
\* only loses timestamps that are outside the window, and the outcome of the
\* client's next call, at any later time, is what it was before the call.
C7_RejectFrame == [][C7_RejectStep]_vars

C7_Witness ==
    /\ lastOp.op = "is_allowed"
    /\ ret = <<FALSE, 0>>
    /\ Len(requests[lastOp.arg]) = max_requests
    /\ now > 0

\* ------------------------------------------------------------------ C8
C8_IsolationStep ==
    (lastOp'.op \in {"is_allowed", "get_remaining"}) =>
        LET c == lastOp'.arg
            n == SumAdmitted(c, now - window_seconds, now)
        IN
        /\ lastOp'.op = "is_allowed" =>
              ret' = IF n < max_requests
                     THEN <<TRUE, max_requests - n - 1>>
                     ELSE <<FALSE, 0>>
        /\ \A d \in Clients \ {c} :
              /\ d \in DOMAIN requests' <=> d \in DOMAIN requests
              /\ ClientRequests(requests', d) = ClientRequests(requests, d)
              /\ admitted'[d] = admitted[d]

\* C8: the result of is_allowed(c) at time t is determined by the admitted
\* calls of c itself in (t - window_seconds, t], and no call of c changes the
\* timestamp sequence of another client.
C8_Isolation == [][C8_IsolationStep]_vars

\* a client is admitted with a full quota while the other is exhausted
C8_Witness ==
    /\ lastOp.op = "is_allowed"
    /\ ret = <<TRUE, max_requests - 1>>
    /\ \E d \in Clients \ {lastOp.arg} :
          /\ d \in DOMAIN requests
          /\ Len(Prune(requests[d], now, window_seconds)) = max_requests

\* ------------------------------------------------------------------ C9
\* what the call of thread t returns and leaves behind when it runs alone on
\* the state its lock was acquired in
Sequential(t) ==
    LET c == thr[t] IN
    CASE c.op = "get" ->
           LET r == CacheGet(snapCache, c.arg, c.tnow, ttl_seconds) IN
           [state |-> r.cache, ret |-> r.ret]
      [] c.op = "set" ->
           LET r == CacheSet(snapCache, c.arg, c.val, c.tnow, max_size) IN
           [state |-> r.cache, ret |-> r.ret]
      [] c.op = "clear" -> [state |-> CacheClear(snapCache), ret |-> None]
      [] c.op = "size" -> [state |-> snapCache, ret |-> CacheSize(snapCache)]
      [] c.op = "is_allowed" ->
           LET r == IsAllowed(snapRequests, c.arg, c.tnow, max_requests, window_seconds) IN
           [state |-> r.requests, ret |-> r.ret]
      [] c.op = "get_remaining" ->
           LET r == GetRemaining(snapRequests, c.arg, c.tnow, max_requests, window_seconds) IN
           [state |-> r.requests, ret |-> r.ret]

C9_LockHeld ==
    \A t \in Threads :
        thr[t].pc # "idle" =>
            IF IsCacheOp(thr[t].op) THEN cacheLock = t ELSE limiterLock = t

C9_Sequential ==
    \A t \in Threads :
        thr[t].pc = "exit" =>
            /\ thr[t].ret = Sequential(t).ret
            /\ (IF IsCacheOp(thr[t].op) THEN cache ELSE requests) = Sequential(t).state

C9_Bounds ==
    /\ cacheLock = Free => Len(cache) <= max_size
    /\ \A t \in Threads :
          (thr[t].pc = "exit" /\ thr[t].op = "size") => thr[t].ret <= max_size
    /\ \A c \in Clients : \A t \in Times :
          SumAdmitted(c, t - window_seconds, t) <= max_requests

\* C9: a thread inside get, set, clear, size, is_allowed or get_remaining
\* holds the instance's lock at every statement of the body, the time read
\* included; every call returns and leaves what it would when run alone on the
\* state it locked; and the size bound (lock free) and the window bound hold.
C9_Atomic == C9_LockHeld /\ C9_Sequential /\ C9_Bounds

\* one thread is inside set with the store over capacity, the lock held,
\* while the other thread is about to append inside is_allowed
C9_Witness ==
    \E t, u \in Threads :
        /\ thr[t].pc = "set42"
        /\ Len(cache) = max_size + 1
        /\ cacheLock = t
        /\ thr[u].pc = "adm26"
        /\ now > 0

\* ------------------------------------------------------------------ C10
\* C10: no cache or limiter built with a zero or negative parameter ever
\* serves a get, set or is_allowed call (its construction fails instead).
C10_FailFast ==
    /\ lastOp.op \in {"get", "set"} => max_size > 0 /\ ttl_seconds > 0
    /\ lastOp.op = "is_allowed" => max_requests > 0 /\ window_seconds > 0

\* ------------------------------------------------------------------ C14
C14_Step ==
    /\ (lastOp'.op = "is_allowed"
        /\ lastOp'.arg \in DOMAIN requests
        /\ Len(ClientRequests(requests, lastOp'.arg)) = max_requests) =>
           LET t0 == requests[lastOp'.arg][1] IN
           /\ now < t0 + window_seconds => ret' = <<FALSE, 0>>
           /\ now >= t0 + window_seconds => ret'[1]
    /\ lastOp'.op = "tick" => requests' = requests
    /\ requests' # requests => lastOp'.op \in {"is_allowed", "get_remaining"}

\* C14: a client holding max_requests timestamps, the oldest t0, is rejected
\* by every is_allowed before t0 + window_seconds and admitted by one at or
\* after it; its sequence changes only inside is_allowed or get_remaining,
\* never by a clock tick.
C14_LazyUnthrottle == [][C14_Step]_vars

\* admitted at exactly t0 + window_seconds, after a full quota starting at t0
C14_Witness ==
    /\ lastOp.op = "is_allowed"
    /\ ret[1]
    /\ now >= window_seconds
    /\ admitted[lastOp.arg][now - window_seconds] > 0
    /\ SumAdmitted(lastOp.arg, now - window_seconds - 1, now - 1) = max_requests

\* ------------------------------------------------------------------ C16
C16_InsertionTime ==
    \A i \in 1..Len(cache) : cache[i].timestamp = lastSet[cache[i].key].t

C16_HitStep ==
    (lastOp'.op = "get" /\ ret' # None) =>
        LET k == lastOp'.arg IN
        /\ cache'[Len(cache')].key = k
        /\ Lookup(cache', k).timestamp = Lookup(cache, k).timestamp

C16_ExpiredAfterHits ==
    (lastOp.op = "get" /\ lastSet[lastOp.arg] # NoSet
       /\ now > lastSet[lastOp.arg].t + ttl_seconds) => ret = None

\* C16: a stored entry's timestamp is always the time of its last set; a get
\* that returns a value moves the key to the most recent position and leaves
\* the timestamp alone; so a get later than T + ttl_seconds returns None
\* however many hits came before.
C16_InsertionRelative ==
    []C16_InsertionTime /\ [][C16_HitStep]_vars /\ []C16_ExpiredAfterHits

\* a was set before b, was hit after b's set, and its next get finds it expired
C16_Witness ==
    /\ lastOp = [op |-> "get", arg |-> "a", had |-> TRUE]
    /\ ret = None
    /\ recency = <<"b", "a">>
    /\ lastSet["b"] # NoSet
    /\ lastSet["a"].t < lastSet["b"].t

\* ------------------------------------------------------------------ C17
\* C17: in every reachable state each client's timestamp sequence holds at
\* most max_requests timestamps.
C17_LengthBound ==
    \A c \in DOMAIN requests : Len(requests[c]) <= max_requests

\* a client at the cap is rejected while time has passed
C17_Witness ==
    /\ lastOp.op = "is_allowed"
    /\ ret = <<FALSE, 0>>
    /\ Len(requests[lastOp.arg]) = max_requests
    /\ max_requests = MaxRequests
    /\ requests[lastOp.arg][1] < now

\* ------------------------------------------------------------------ C19
C19_Step ==
    lastOp'.op = "get_remaining" =>
        LET c == lastOp'.arg
            q == ClientRequests(requests, c)
            r == ret'
        IN
        /\ admitted' = admitted
        /\ \E n \in 0..Len(q) : requests'[c] = SubSeq(q, n + 1, Len(q))
        /\ \A d \in Clients : \A t \in now..MaxTime :
              IsAllowed(requests', d, t, max_requests, window_seconds).ret
                = IsAllowed(requests, d, t, max_requests, window_seconds).ret
        /\ IsAllowed(requests', c, now, max_requests, window_seconds).ret
             = IF r > 0 THEN <<TRUE, r - 1>> ELSE <<FALSE, 0>>

\* C19: get_remaining only drops a prefix of the client's sequence and appends
\* nothing, leaves the result of every later is_allowed of every client as it
\* was, and is_allowed at the same time returns (True, r - 1) when it returned
\* r > 0 and (False, 0) when it returned 0.
C19_RemainingAgrees == [][C19_Step]_vars

\* get_remaining pruned the client's stale timestamps and reports a full quota
C19_Witness ==
    /\ lastOp.op = "get_remaining"
    /\ ret = max_requests
    /\ requests[lastOp.arg] = <<>>
    /\ SumAdmitted(lastOp.arg, -1, now) > 0

\* ------------------------------------------------------------------ C20
C20_SizeCounts == lastOp.op = "size" => ret = Len(cache)

C20_Step ==
    /\ lastOp'.op = "tick" => cache' = cache
    /\ Len(cache') < Len(cache) =>
          \/ /\ lastOp'.op = "get"
             /\ lastOp'.had
             /\ ret' = None
             /\ cache' = DelKey(cache, lastOp'.arg)
             /\ Len(cache') = Len(cache) - 1
             /\ IsExpired(Lookup(cache, lastOp'.arg).timestamp, now, ttl_seconds)
          \/ lastOp'.op = "set" /\ Len(cache) + 1 > max_size
          \/ lastOp'.op = "clear"

\* C20: size() returns the number of stored entries, expired ones included; a
\* clock tick leaves the store alone; the store shrinks only by a get on a
\* stored expired key (by one entry), by an eviction in set, or by clear.
C20_LazySize == []C20_SizeCounts /\ [][C20_Step]_vars

\* size() counts an entry that is expired but was never read
C20_Witness ==
    /\ lastOp.op = "size"
    /\ ret >= 1
    /\ \E i \in 1..Len(cache) : IsExpired(cache[i].timestamp, now, ttl_seconds)

\* ------------------------------------------------------------------ C15
C15_ClearPost ==
    \A t \in Threads :
        (thr[t].pc = "exit" /\ thr[t].op = "clear") =>
            /\ cacheLock = t
            /\ CacheSize(cache) = 0
            /\ \A k \in Keys : ~Contains(cache, k)
            /\ CacheClear(cache) = cache

C15_ClearExclusive ==
    \A t \in Threads :
        (thr[t].op = "clear" /\ thr[t].pc # "idle") =>
            /\ \A u \in Threads \ {t} : ~IsCacheOp(thr[u].op)
            /\ thr[t].pc = "clear" => cache = snapCache

\* C15: when clear() returns, on an empty or a non-empty store, size() is 0,
\* every key is absent and a second clear() changes nothing; while a clear
\* call is in progress no other thread is inside get, set or size, and the
\* store is the one clear found until the single step that empties it.
C15_ClearAtomic == C15_ClearPost /\ C15_ClearExclusive

\* clear has just emptied a non-empty store while the other thread is mid-call
C15_Witness ==
    \E t \in Threads :
        /\ thr[t].pc = "exit"
        /\ thr[t].op = "clear"
        /\ snapCache # <<>>
        /\ cache = <<>>
        /\ \E u \in Threads \ {t} : thr[u].pc # "idle"

\* ------------------------------------------------------------------ C18
C18_Sorted ==
    \A c \in DOMAIN requests :
        \A i \in 1..Len(requests[c]) : \A j \in i..Len(requests[c]) :
            requests[c][i] <= requests[c][j]

C18_PostPrune ==
    \A t \in Threads :
        thr[t].pc \in {"adm25", "rem43"} =>
            \A i \in 1..Len(requests[thr[t].arg]) :
                /\ thr[t].tnow - window_seconds < requests[thr[t].arg][i]
                /\ requests[thr[t].arg][i] <= thr[t].tnow

\* C18: with a non-decreasing clock every client's timestamp sequence is
\* non-decreasing in every reachable state of concurrently calling threads,
\* and right after the prune loop of is_allowed or get_remaining every
\* remaining timestamp ts satisfies now - window_seconds < ts <= now.
C18_OrderedWindow == C18_Sorted /\ C18_PostPrune

\* the prune loop removed a stale head and kept a later timestamp
C18_Witness ==
    \E t \in Threads :
        /\ thr[t].pc \in {"adm25", "rem43"}
        /\ requests[thr[t].arg] # <<>>
        /\ thr[t].arg \in DOMAIN snapRequests
        /\ Len(snapRequests[thr[t].arg]) > Len(requests[thr[t].arg])

\* ------------------------------------------------------------------ C11
\* C11: every result the store holds is exactly as cache.set stored it:
\* nothing alters the payload between a set and a later get.
C11_PayloadUnaltered ==
    \A i \in 1..Len(cache) :
        cache[i].value \in ObjIds =>
            heap[cache[i].value].cur = heap[cache[i].value].orig

\* ------------------------------------------------------------------ C12
CountOf(ev, e) == Cardinality({i \in 1..Len(ev) : ev[i].e = e})

PastMiddleware(q) == q.pc \notin {"idle", "mw"}

\* C12 as stated: every request, on every route, calls is_allowed exactly
\* once, before anything else.
C12_EveryRoute ==
    \A r \in Reqs :
        PastMiddleware(inflight[r]) =>
            /\ CountOf(inflight[r].events, "is_allowed") = 1
            /\ inflight[r].events[1].e = "is_allowed"

\* C12 (amended): a request to any route but /health calls is_allowed exactly
\* once, for its own client, before any other work and whatever number of
\* uploads it carries; a request to /health never calls it.
C12_OnceExceptHealth ==
    \A r \in Reqs :
        LET q == inflight[r] IN
        /\ ~PastMiddleware(q) => q.events = <<>>
        /\ PastMiddleware(q) =>
              IF q.route = "/health"
              THEN q.events = <<>>
              ELSE /\ CountOf(q.events, "is_allowed") = 1
                   /\ q.events[1].e = "is_allowed"
                   /\ q.events[1].arg = q.client

\* a batch of three uploads was served after a single is_allowed
C12_Witness ==
    \E r \in Reqs :
        /\ inflight[r].pc = "done"
        /\ inflight[r].route = "/extract-text/batch"
        /\ CountOf(inflight[r].events, "validate") = 3
        /\ CountOf(inflight[r].events, "is_allowed") = 1

\* ------------------------------------------------------------------ C13
\* the events of a request without those of upload validation
Core(ev) == SelectSeq(ev, LAMBDA x : x.e \notin {"validate", "reject"})

\* C13 as stated: a finished /extract-text request was either rejected by
\* the limiter and did nothing else, or did cache.get and then either
\* returned the hit or ran OCR and cache.set with the same key.
C13_Order ==
    \A r \in Reqs :
        LET q == inflight[r]
            ev == Core(q.events)
        IN
        (q.pc = "done" /\ q.route = "/extract-text") =>
            /\ ev # <<>>
            /\ ev[1].e = "is_allowed"
            /\ IF ~ev[1].ok
               THEN Len(ev) = 1 /\ q.status = 429
               ELSE /\ Len(ev) >= 3
                    /\ ev[2].e = "cache.get"
                    /\ \/ Len(ev) = 3 /\ ev[3] = Ev("hit", ev[2].arg, TRUE)
                       \/ /\ Len(ev) = 4
                          /\ ev[3].e = "ocr"
                          /\ ev[4] = Ev("cache.set", ev[2].arg, TRUE)

RECURSIVE Segments(_)
\* ev is a sequence of whole per-upload runs: validation that rejects; or
\* validation, cache.get and a hit; or validation, cache.get and an OCR call
\* that raises; or validation, cache.get, OCR, cache.set
Segments(ev) ==
    \/ ev = <<>>
    \/ /\ Len(ev) >= 2
       /\ ev[1].e = "validate"
       /\ ev[2] = Ev("reject", ev[1].arg, FALSE)
       /\ Segments(SubSeq(ev, 3, Len(ev)))
    \/ /\ Len(ev) >= 3
       /\ ev[1] = Ev("validate", ev[1].arg, TRUE)
       /\ ev[2] = Ev("cache.get", FileHash(ev[1].arg), TRUE)
       /\ ev[3] = Ev("hit", FileHash(ev[1].arg), TRUE)
       /\ Segments(SubSeq(ev, 4, Len(ev)))
    \/ /\ Len(ev) >= 3
       /\ ev[1] = Ev("validate", ev[1].arg, TRUE)
       /\ ev[2] = Ev("cache.get", FileHash(ev[1].arg), FALSE)
       /\ ev[3] = Ev("ocr", ev[1].arg, FALSE)
       /\ Segments(SubSeq(ev, 4, Len(ev)))
    \/ /\ Len(ev) >= 4
       /\ ev[1] = Ev("validate", ev[1].arg, TRUE)
       /\ ev[2] = Ev("cache.get", FileHash(ev[1].arg), FALSE)
       /\ ev[3] = Ev("ocr", ev[1].arg, TRUE)
       /\ ev[4] = Ev("cache.set", FileHash(ev[1].arg), TRUE)
       /\ Segments(SubSeq(ev, 5, Len(ev)))

\* C13 (amended): on the OCR routes a request first calls is_allowed; if
\* rejected it ends with 429 and nothing else happens; otherwise each upload
\* (one on /extract-text, each of the batch in turn) is validated and, if
\* validation rejects it, neither cache.get, OCR nor cache.set happens for
\* it; else cache.get(key), and on a hit nothing more, on a miss OCR and,
\* unless the OCR call raises, then cache.set with the key that was looked
\* up. The other routes never
\* call cache.get, OCR or cache.set.
C13_OrderValidated ==
    \A r \in Reqs :
        LET q == inflight[r] IN
        PastMiddleware(q) =>
            IF q.route \in {"/extract-text", "/extract-text/batch"}
            THEN /\ q.events[1].e = "is_allowed"
                 /\ ~q.events[1].ok =>
                       q.events = <<Ev("is_allowed", q.client, FALSE)>>
                         /\ q.pc = "done" /\ q.status = 429
                 /\ q.events[1].ok =>
                       /\ q.status # 429
                       /\ IF q.pc = "read"
                          THEN /\ q.events[Len(q.events)]
                                    = Ev("validate", Head(q.images), TRUE)
                               /\ Segments(SubSeq(q.events, 2, Len(q.events) - 1))
                          ELSE Segments(Tail(q.events))
                 /\ (q.route = "/extract-text" /\ q.pc = "done" /\ q.events[1].ok) =>
                       CountOf(q.events, "validate") = 1
            ELSE \A i \in 1..Len(q.events) :
                    q.events[i].e \notin {"cache.get", "hit", "ocr", "cache.set"}

\* an admitted batch had one upload run OCR and store its result, one
\* refused by validation and one served from the cache
C13_Witness ==
    \E r \in Reqs :
        /\ inflight[r].pc = "done"
        /\ inflight[r].status = 200
        /\ CountOf(inflight[r].events, "is_allowed") = 1
        /\ CountOf(inflight[r].events, "cache.set") = 1
        /\ CountOf(inflight[r].events, "reject") = 1
        /\ CountOf(inflight[r].events, "hit") = 1

\* ------------------------------------------------------------------ C21
C21_NoError == lastOp.op = "get" => ret # KeyError

C21_Step ==
    (lastOp'.op = "get" /\ ret' = None) =>
        LET k == lastOp'.arg IN
        /\ lastSet' = lastSet
        /\ IF lastOp'.had
           THEN /\ IsExpired(Lookup(cache, k).timestamp, now, ttl_seconds)
                /\ cache' = SelectSeq(cache, LAMBDA e : e.key # k)
           ELSE cache' = cache

\* C21: get never signals an error; a get that returns None on a key that is
\* not stored leaves the store as it was, and on a stored (hence expired) key
\* removes that entry only: the other entries keep their values, insertion
\* times and relative order.
C21_AbsentFrame == []C21_NoError /\ [][C21_Step]_vars

\* an expired key was removed by get while another entry stayed in the store
C21_Witness ==
    /\ lastOp.op = "get"
    /\ lastOp.had
    /\ ret = None
    /\ cache # <<>>
    /\ ~Contains(cache, lastOp.arg)

FailingUploads == {"doc", "fake", "bomb"}

C23_NoFailedKey ==
    \A u \in FailingUploads : ~Contains(cache, FileHash(u))

\* the step of request r in which the processing of an upload failed
FailedIn(r) ==
    /\ Len(inflight'[r].events) > Len(inflight[r].events)
    /\ LET last == inflight'[r].events[Len(inflight'[r].events)] IN
       \/ last.e = "reject"
       \/ last.e = "ocr" /\ ~last.ok

C23_Step ==
    \A r \in Reqs :
        FailedIn(r) =>
            /\ CountOf(inflight'[r].events, "cache.set")
                 = CountOf(inflight[r].events, "cache.set")
            /\ \A i \in 1..Len(cache') : \E j \in 1..Len(cache) : cache'[i] = cache[j]
            /\ \A o \in Refs(cache') : heap'[o] = heap[o]
            /\ inflight'[r].route = "/extract-text" =>
                  /\ inflight'[r].pc = "done"
                  /\ inflight'[r].status \in {400, 500}

\* C23: when validation rejects an upload or the OCR call raises, the step
\* calls no cache.set and every entry in the store afterwards was there,
\* unchanged, before; /extract-text answers with an error status; and the
\* store never holds an entry under the key of an upload that fails.
C23_FailureStoresNothing == []C23_NoFailedKey /\ [][C23_Step]_vars

\* the OCR call raised for a request while the store held another result
C23_Witness ==
    \E r \in Reqs :
        /\ inflight[r].pc = "done"
        /\ inflight[r].status = 500
        /\ inflight[r].events[Len(inflight[r].events)].e = "ocr"
        /\ cache # <<>>

====
